---- MODULE Spec2Model ----
(***************************************************************************)
(* Model of the kraken2-rust tools under kr2r/src/bin:                     *)
(*   hashshard.rs    the shard splitter  (run, mmap_read_write)            *)
(*   build_k2_db.rs  the shard builder   (run)                             *)
(*   resolve.rs      the hit-group resolver (run, process_batch,           *)
(*                   read_rows_from_file)                                  *)
(*   squid.rs        the hit lookup      (process_chunk_file)              *)
(* and of the helpers of utils.rs they call.  The tools run as separate    *)
(* processes that communicate through the files of the database directory. *)
(***************************************************************************)
EXTENDS Integers, Sequences, FiniteSets, TLC

\* ------------------------------------------------------------------ bounds
MaxCapacity == 5
MaxChunks == 2
MaxCount == 1
MaxRuns == 2
MaxBytes == 7
MaxHits == 3
MaxRows == 2
NumThreads == 2
MaxQueryBytes == 6

\* ------------------------------------------------------- program constants
\* hashshard.rs:72,88  the preamble of the legacy index the splitter skips
LEGACY_HEADER == 32
\* hashshard.rs:73  std::mem::size_of::<u32>()
B_SIZE == 4

VARIABLES
    \* --- files of the database directory
    legacy,        \* hash.k2d: [capacity, value_mask, len]
    config,        \* hash_config.k2d
    shards,        \* hash_<i>.k2d
    chunks,        \* numbers n of the chunk_<n>.k2 files present
    \* --- command line
    hash_capacity, \* --hash-capacity
    \* --- the running tool
    tool,          \* "none", "splitter" or "builder": the tool of the last run
    pc,            \* position of the running tool ("idle": none runs)
    hash_config,   \* its in-memory HashConfig
    i,             \* its loop index
    chunk_files,   \* builder: the chunk numbers found, ascending
    size,          \* builder: the running sum of counts
    \* --- history of the current run
    runs,          \* tool runs started so far
    writes,        \* files written by the current run
    cfg_writes,    \* config writes of the current run
    counts,        \* builder: the counts process_k2file returned
    fold_failed,   \* builder: process_k2file returned Err in this run
    interrupted,   \* some run ended midway (crash or error) after writing
    start,         \* config and shards as they were when the run started
    \* --- resolve.rs read_rows_from_file, on its own
    stream,        \* the bytes of the hit-record file
    rpos,          \* bytes consumed by read_exact so far
    rmap,          \* map: seq_id -> the rows pushed, in order
    rpc,           \* "reading", "ok" (Ok(map) returned) or "off"
    \* --- resolve.rs command line
    confidence,          \* --confidence-threshold, in halves (0, 1/2, 1)
    minimum_hit_groups,  \* --minimum-hit-groups
    \* --- resolve.rs process_batch: the closure on one sequence, on its own
    rows_in,       \* the rows of the sequence as they arrived in the file
    hits,          \* HitGroup::new(rows, range): the rows after the sort
    hit_data,      \* what process_hitgroup returned
    cpc,           \* "start", "sorted", "done" or "off"
    \* --- resolve.rs run and process_batch
    sample_files,        \* batch -> its hit-record files (bytes), in order
    sample_id_maps,      \* batch -> the sequence ids of its sequence-id map
    qpc,                 \* position of run
    batch,               \* the batch run is at
    file,                \* the file process_batch is at
    hit_counts,          \* the rows of the file read, by sequence id
    todo,                \* keys of hit_counts no worker has taken yet
    workers,             \* worker -> the closure call it is in
    results,             \* what the closures returned, not yet consumed
    out,                 \* the lines written to the batch's writer
    classify_counter,    \* AtomicUsize of process_batch
    cur_taxon_counts,    \* TaxonCountersDash of process_batch: taxon -> reads
    total_taxon_counts,  \* TaxonCounters of run: taxon -> reads
    total_seqs,
    total_unclassified,
    \* --- history of the resolver's run
    emitted,             \* taxon -> read-count deltas the closures of the batch made
    emitted_total,       \* the same, over the whole run
    raced,               \* two closures held deltas for one taxon at once
    \* --- squid.rs process_chunk_file
    query_file,          \* the chunk file: [len]: its length in bytes
    reader,              \* offset in the file the reader is at
    slot_batches,        \* the slices of slots resolved, one per read
    spc                  \* position of process_chunk_file

buildVars == <<legacy, config, shards, chunks, hash_capacity, tool, pc, hash_config,
               i, chunk_files, size, runs, writes, cfg_writes, counts,
               fold_failed, interrupted, start>>

readVars == <<stream, rpos, rmap, rpc>>

argVars == <<confidence, minimum_hit_groups>>

callVars == <<rows_in, hits, hit_data, cpc>>

runVars == <<sample_files, sample_id_maps, qpc, batch, file, hit_counts, todo,
             workers, results, out, classify_counter, cur_taxon_counts,
             total_taxon_counts, total_seqs, total_unclassified, emitted,
             emitted_total, raced>>

squidVars == <<query_file, reader, slot_batches, spc>>

vars == <<buildVars, readVars, argVars, callVars, runVars, squidVars>>

\* what each tool leaves alone
notBuildVars == <<readVars, argVars, callVars, runVars, squidVars>>

notReadVars == <<buildVars, argVars, callVars, runVars, squidVars>>

notCallVars == <<buildVars, readVars, argVars, runVars, squidVars>>

notRunVars == <<buildVars, readVars, callVars, argVars, squidVars>>

notSquidVars == <<buildVars, readVars, argVars, callVars, runVars>>

\* ------------------------------------------------------------ HashConfig
NoConfig == [exists |-> FALSE, capacity |-> 0, hash_capacity |-> 0,
             partition |-> 0, value_mask |-> 0, size |-> 0]

NoShard == [exists |-> FALSE, header |-> FALSE, index |-> 0, cap |-> 0,
            data |-> <<>>, occ |-> 0]

MaxShards == MaxCapacity

\* HashConfig::from_kraken2_header: the config a legacy index header yields
FromKraken2Header(l) ==
    [exists |-> TRUE, capacity |-> l.capacity, hash_capacity |-> 0,
     partition |-> 0, value_mask |-> l.value_mask, size |-> l.size]

\* hashshard.rs:64
PartitionFloor(capacity, hcap) == capacity \div hcap

Partition(capacity, hcap) == (capacity + hcap - 1) \div hcap

\* hashshard.rs:72
FileLen(capacity) == capacity * B_SIZE + LEGACY_HEADER

\* hashshard.rs:88
ShardOffsetNext(hcap, n) == LEGACY_HEADER + hcap * n * B_SIZE

ShardOffsetAfterTag(hcap, n) == 16 + hcap * (n - 1) * B_SIZE

ShardOffset(hcap, n) == LEGACY_HEADER + hcap * (n - 1) * B_SIZE

\* hashshard.rs:89-92
ShardLengthUnclipped(hcap, n, file_len) == hcap * B_SIZE

ShardLength(hcap, n, file_len) ==
    IF ShardOffset(hcap, n) + hcap * B_SIZE > file_len
    THEN file_len - ShardOffset(hcap, n)
    ELSE hcap * B_SIZE

\* hashshard.rs:22, 25  usize::to_le_bytes: the eight bytes of x, the lowest
\* first
RECURSIVE LeBytes(_, _)
LeBytes(x, n) == IF n = 0 THEN <<>> ELSE <<x % 256>> \o LeBytes(x \div 256, n - 1)

RECURSIVE BeBytes(_, _)
BeBytes(x, n) == IF n = 0 THEN <<>> ELSE BeBytes(x \div 256, n - 1) \o <<x % 256>>

ToBeBytes(x) == BeBytes(x, 8)

ToLeBytes(x) == LeBytes(x, 8)

\* hashshard.rs:20-26  the head of a shard file: partition.to_le_bytes(), then
\* cap.to_le_bytes()
ShardHeader(sh) ==
    IF sh.header THEN ToLeBytes(sh.index) \o ToLeBytes(sh.cap) ELSE <<>>

\* The bytes of the legacy file from offset, length of them: byte p of the
\* file is named by its offset p.
Bytes(offset, length) == [k \in 1..length |-> offset + k - 1]

RECURSIVE SumSeq(_)
SumSeq(s) == IF s = <<>> THEN 0 ELSE Head(s) + SumSeq(Tail(s))

\* ------------------------------------------------------------------- Init
\* the record reader is not part of the splitter and builder runs
ReadOff ==
    /\ stream = <<>>
    /\ rpos = 0
    /\ rmap = <<>>
    /\ rpc = "off"

NoHitData == [status |-> "U", call |-> 0, classified |-> 0]

ArgsOff ==
    /\ confidence = 0
    /\ minimum_hit_groups = 0

CallOff ==
    /\ rows_in = <<>>
    /\ hits = <<>>
    /\ hit_data = NoHitData
    /\ cpc = "off"

RunOff ==
    /\ sample_files = <<>>
    /\ sample_id_maps = <<>>
    /\ qpc = "off"
    /\ batch = 0
    /\ file = 0
    /\ hit_counts = <<>>
    /\ todo = {}
    /\ workers = <<>>
    /\ results = <<>>
    /\ out = <<>>
    /\ classify_counter = 0
    /\ cur_taxon_counts = <<>>
    /\ total_taxon_counts = <<>>
    /\ total_seqs = 0
    /\ total_unclassified = 0
    /\ emitted = <<>>
    /\ emitted_total = <<>>
    /\ raced = FALSE

SquidOff ==
    /\ query_file = [len |-> 0]
    /\ reader = 0
    /\ slot_batches = <<>>
    /\ spc = "off"

\* splitter and builder are not part of the resolver's run
BuildIdle(cfg) ==
    /\ legacy = [capacity |-> 1, value_mask |-> 3, size |-> 0, len |-> FileLen(1)]
    /\ config = cfg
    /\ shards = [n \in 1..MaxShards |-> NoShard]
    /\ chunks = {}
    /\ hash_capacity = 1
    /\ tool = "none"
    /\ pc = "off"
    /\ hash_config = NoConfig
    /\ i = 0
    /\ chunk_files = <<>>
    /\ size = 0
    /\ runs = 0
    /\ writes = 0
    /\ cfg_writes = 0
    /\ counts = <<>>
    /\ fold_failed = FALSE
    /\ interrupted = FALSE
    /\ start = [config |-> NoConfig, shards |-> [n \in 1..MaxShards |-> NoShard]]

BuildOff == BuildIdle(NoConfig)

\* resolve.rs:199-200  the config of the database the resolver is run on, as
\* a split of the legacy index of BuildIdle and a build leave it
BuiltConfig ==
    [exists |-> TRUE, capacity |-> 1, hash_capacity |-> 1, partition |-> 1,
     value_mask |-> 3, size |-> 1]

InitBuild ==
    /\ \E c \in 1..MaxCapacity, short \in BOOLEAN :
          legacy = [capacity |-> c, value_mask |-> 3, size |-> 0,
                    len |-> IF short THEN FileLen(c) - B_SIZE ELSE FileLen(c)]
    /\ config = NoConfig
    /\ shards = [n \in 1..MaxShards |-> NoShard]
    /\ chunks \in SUBSET (1..MaxChunks)
    /\ hash_capacity \in 1..MaxCapacity
    /\ tool = "none"
    /\ pc = "idle"
    /\ hash_config = NoConfig
    /\ i = 0
    /\ chunk_files = <<>>
    /\ size = 0
    /\ runs = 0
    /\ writes = 0
    /\ cfg_writes = 0
    /\ counts = <<>>
    /\ fold_failed = FALSE
    /\ interrupted = FALSE
    /\ start = [config |-> NoConfig, shards |-> [n \in 1..MaxShards |-> NoShard]]
    /\ ReadOff
    /\ ArgsOff
    /\ CallOff
    /\ RunOff
    /\ SquidOff

\* ------------------------------------------------- hashshard.rs: the splitter
Snapshot == [config |-> config, shards |-> shards]

NewRun(t) ==
    /\ pc = "idle"
    /\ runs < MaxRuns
    /\ runs' = runs + 1
    /\ tool' = t
    /\ writes' = 0
    /\ cfg_writes' = 0
    /\ counts' = <<>>
    /\ fold_failed' = FALSE
    /\ start' = Snapshot

\* hashshard.rs:80  config_file.exists()
ConfigExistsIgnored(cfg) == FALSE

ConfigExists(cfg) == cfg.exists

\* hashshard.rs:60-77  read the legacy header, derive the shard count
SplitStart ==
    /\ UNCHANGED notBuildVars
    /\ NewRun("splitter")
    /\ hash_config' = [FromKraken2Header(legacy) EXCEPT
                          !.partition = Partition(legacy.capacity, hash_capacity),
                          !.hash_capacity = hash_capacity]
    /\ pc' = "s_config"
    /\ UNCHANGED <<legacy, config, shards, chunks, hash_capacity, i,
                   chunk_files, size, interrupted>>

\* hashshard.rs:79-84  panic when the config exists, else write it
SplitWriteConfig ==
    /\ UNCHANGED notBuildVars
    /\ pc = "s_config"
    /\ IF ConfigExists(config)
       THEN /\ pc' = "s_panic"
            /\ UNCHANGED <<config, writes, cfg_writes, i>>
       ELSE /\ config' = hash_config
            /\ writes' = writes + 1
            /\ cfg_writes' = cfg_writes + 1
            /\ i' = 1
            /\ pc' = "s_loop"
    /\ UNCHANGED <<legacy, shards, chunks, hash_capacity, tool, hash_config,
                   chunk_files, size, runs, counts, fold_failed, interrupted,
                   start>>

\* hashshard.rs:86-87, 20  File::create(dest_path): the shard file exists, empty;
\* the header sits in the BufWriter
SplitCreateShard ==
    /\ UNCHANGED notBuildVars
    /\ pc = "s_loop"
    /\ i <= hash_config.partition
    /\ shards' = [shards EXCEPT ![i] = [NoShard EXCEPT !.exists = TRUE]]
    /\ writes' = writes + 1
    /\ pc' = "s_copy"
    /\ UNCHANGED <<legacy, config, chunks, hash_capacity, tool, hash_config, i,
                   chunk_files, size, runs, cfg_writes, counts, fold_failed,
                   interrupted, start>>

\* hashshard.rs:21-37, 88-94  read_exact the range and write header and cells;
\* a short legacy file makes read_exact fail: the BufWriter is dropped, which
\* flushes the header alone, and run returns the error
SplitCopyShard ==
    /\ UNCHANGED notBuildVars
    /\ pc = "s_copy"
    /\ LET file_len == FileLen(hash_config.capacity)
           offset == ShardOffset(hash_capacity, i)
           length == ShardLength(hash_capacity, i, file_len)
           cap == length \div B_SIZE
           written == [exists |-> TRUE, header |-> TRUE, index |-> i,
                       cap |-> cap, data |-> <<>>, occ |-> 0]
       IN  IF offset + length <= legacy.len
           THEN /\ shards' = [shards EXCEPT
                                ![i] = [written EXCEPT !.data = Bytes(offset, length)]]
                /\ i' = i + 1
                /\ pc' = "s_loop"
                /\ UNCHANGED interrupted
           ELSE /\ shards' = [shards EXCEPT ![i] = written]
                /\ pc' = "s_err"
                /\ interrupted' = TRUE
                /\ UNCHANGED i
    /\ UNCHANGED <<legacy, config, chunks, hash_capacity, tool, hash_config,
                   chunk_files, size, runs, writes, cfg_writes, counts,
                   fold_failed, start>>

\* hashshard.rs:97-113  the loop is over: run returns Ok
SplitFinish ==
    /\ UNCHANGED notBuildVars
    /\ pc = "s_loop"
    /\ i > hash_config.partition
    /\ pc' = "s_done"
    /\ UNCHANGED <<legacy, config, shards, chunks, hash_capacity, tool,
                   hash_config, i, chunk_files, size, runs, writes, cfg_writes,
                   counts, fold_failed, interrupted, start>>

\* ---------------------------------------------- build_k2_db.rs: the builder
\* utils.rs:279-291  the numbers found are 1, 2, ..., n
Contiguous(keys) == \A n \in keys : n <= Cardinality(keys)

\* utils.rs:241-295  find_and_trans_files(dir, "chunk", ".k2", check): the
\* BTreeMap of the chunk files by number, iterated in ascending order
RECURSIVE Ascending(_)
Ascending(keys) ==
    IF keys = {} THEN <<>>
    ELSE LET m == CHOOSE n \in keys : \A o \in keys : n <= o
         IN  <<m>> \o Ascending(keys \ {m})

FindAndTransFiles(keys, check) ==
    IF check /\ ~Contiguous(keys)
    THEN [ok |-> FALSE, files |-> <<>>]
    ELSE [ok |-> TRUE, files |-> Ascending(keys)]

\* A shard file holding its header and all the cells of its header's capacity
ShardWhole(sh) ==
    sh.exists /\ sh.header /\ Len(sh.data) = sh.cap * B_SIZE

\* db::process_k2file(config, dir, chunk, taxonomy, page_size, page_index):
\* opens shard page_index, folds the chunk into it and returns the number of
\* newly occupied cells, or an error (a missing or malformed shard, I/O)
ProcessK2File(n) ==
    { [ok |-> FALSE, count |-> 0] }
    \cup (IF n \in 1..MaxShards /\ ShardWhole(shards[n])
          THEN { [ok |-> TRUE, count |-> c] : c \in 0..MaxCount }
          ELSE {})

\* build_k2_db.rs:41  size += count
AccumulateLast(sum, count) == count

Accumulate(sum, count) == sum + count

\* build_k2_db.rs:51  hash_config.size = size
WithSizeAndPartition(cfg, n) == [cfg EXCEPT !.size = n, !.partition = n]

WithSize(cfg, n) == [cfg EXCEPT !.size = n]

\* build_k2_db.rs:20-29  load the taxonomy and the config
BuildStart ==
    /\ UNCHANGED notBuildVars
    /\ NewRun("builder")
    /\ IF config.exists
       THEN /\ hash_config' = config
            /\ pc' = "b_find"
       ELSE /\ pc' = "b_err"
            /\ UNCHANGED hash_config
    /\ UNCHANGED <<legacy, config, shards, chunks, hash_capacity, i,
                   chunk_files, size, interrupted>>

\* build_k2_db.rs:31-33
BuildFind ==
    /\ UNCHANGED notBuildVars
    /\ pc = "b_find"
    /\ LET found == FindAndTransFiles(chunks, TRUE)
       IN  IF found.ok
           THEN /\ chunk_files' = found.files
                /\ size' = 0
                /\ i' = 1
                /\ pc' = "b_fold"
           ELSE /\ pc' = "b_err"
                /\ UNCHANGED <<chunk_files, size, i>>
    /\ UNCHANGED <<legacy, config, shards, chunks, hash_capacity, tool,
                   hash_config, runs, writes, cfg_writes, counts, fold_failed,
                   interrupted, start>>

\* build_k2_db.rs:36-49  one turn of the loop over chunk_files
BuildFold ==
    /\ UNCHANGED notBuildVars
    /\ pc = "b_fold"
    /\ i <= Len(chunk_files)
    /\ \E r \in ProcessK2File(chunk_files[i]) :
          IF r.ok
          THEN /\ size' = Accumulate(size, r.count)
               /\ counts' = Append(counts, r.count)
               /\ shards' = [shards EXCEPT
                               ![chunk_files[i]].occ = @ + r.count]
               /\ writes' = writes + 1
               /\ i' = i + 1
               /\ UNCHANGED <<pc, fold_failed, interrupted>>
          ELSE /\ pc' = "b_err"
               /\ fold_failed' = TRUE
               /\ interrupted' = (interrupted \/ writes > 0)
               /\ UNCHANGED <<size, counts, shards, writes, i>>
    /\ UNCHANGED <<legacy, config, chunks, hash_capacity, tool, hash_config,
                   chunk_files, runs, cfg_writes, start>>

\* build_k2_db.rs:51-52  hash_config.size = size; write_to_file
BuildWriteConfig ==
    /\ UNCHANGED notBuildVars
    /\ pc = "b_fold"
    /\ i > Len(chunk_files)
    /\ hash_config' = WithSize(hash_config, size)
    /\ config' = hash_config'
    /\ cfg_writes' = cfg_writes + 1
    /\ writes' = writes + 1
    /\ i' = 1
    /\ pc' = "b_remove"
    /\ UNCHANGED <<legacy, shards, chunks, hash_capacity, tool, chunk_files,
                   size, runs, counts, fold_failed, interrupted, start>>

\* build_k2_db.rs:59-61  remove_file(chunk_file)?
BuildRemove ==
    /\ UNCHANGED notBuildVars
    /\ pc = "b_remove"
    /\ i <= Len(chunk_files)
    /\ \E removed \in BOOLEAN :
          IF removed
          THEN /\ chunks' = chunks \ {chunk_files[i]}
               /\ i' = i + 1
               /\ UNCHANGED pc
          ELSE /\ pc' = "b_err"
               /\ UNCHANGED <<chunks, i>>
    /\ UNCHANGED <<legacy, config, shards, hash_capacity, tool, hash_config,
                   chunk_files, size, runs, writes, cfg_writes, counts,
                   fold_failed, interrupted, start>>

\* build_k2_db.rs:63
BuildFinish ==
    /\ UNCHANGED notBuildVars
    /\ pc = "b_remove"
    /\ i > Len(chunk_files)
    /\ pc' = "b_done"
    /\ UNCHANGED <<legacy, config, shards, chunks, hash_capacity, tool,
                   hash_config, i, chunk_files, size, runs, writes, cfg_writes,
                   counts, fold_failed, interrupted, start>>

\* ------------------------------------------------------- the process itself
Running == {"s_config", "s_loop", "s_copy", "b_find", "b_fold", "b_remove"}

Ended == {"s_done", "s_panic", "s_err", "b_done", "b_err", "crashed"}

\* The process is killed where it stands.  What it wrote stays; a shard file
\* just created stays empty.  The run is interrupted when it had written
\* something and its last write (the builder's config write) was still due.
Crash ==
    /\ UNCHANGED notBuildVars
    /\ pc \in Running
    /\ pc' = "crashed"
    /\ interrupted' = (interrupted \/ (writes > 0 /\ pc # "b_remove"))
    /\ UNCHANGED <<legacy, config, shards, chunks, hash_capacity, tool,
                   hash_config, i, chunk_files, size, runs, writes, cfg_writes,
                   counts, fold_failed, start>>

\* main returns (hashshard.rs:117-122, build_k2_db.rs:67-72): the next tool
\* may be started
Exit ==
    /\ UNCHANGED notBuildVars
    /\ pc \in Ended
    /\ runs < MaxRuns
    /\ pc' = "idle"
    /\ UNCHANGED <<legacy, config, shards, chunks, hash_capacity, tool,
                   hash_config, i, chunk_files, size, runs, writes, cfg_writes,
                   counts, fold_failed, interrupted, start>>

NextBuild ==
    \/ SplitStart
    \/ SplitWriteConfig
    \/ SplitCreateShard
    \/ SplitCopyShard
    \/ SplitFinish
    \/ BuildStart
    \/ BuildFind
    \/ BuildFold
    \/ BuildWriteConfig
    \/ BuildRemove
    \/ BuildFinish
    \/ Crash
    \/ Exit

Spec == InitBuild /\ [][NextBuild]_vars

\* ===================================================== splitter and builder
Range(f) == { f[k] : k \in DOMAIN f }

\* Some shard the config counts is missing, empty or cut short
PartialShardSet ==
    /\ config.exists
    /\ \E n \in 1..config.partition : ~ShardWhole(shards[n])

\* C1: after a run was interrupted (a crash or an error before its last write)
\* no later run accepts the directory: the builder never reports success over
\* a shard set of which a shard is missing or cut short.
C1_PartialNeverAccepted ==
    ~(interrupted /\ PartialShardSet /\ pc = "b_done")

\* The number of cells the claim gives shard n of a capacity split by hcap
ClaimedCount(capacity, hcap) ==
    CHOOSE k \in 1..capacity : k * hcap >= capacity /\ (k - 1) * hcap < capacity

ClaimedCells(capacity, hcap, n) ==
    IF n < ClaimedCount(capacity, hcap)
    THEN hcap
    ELSE capacity - (ClaimedCount(capacity, hcap) - 1) * hcap

\* C2: with 1 <= shard_capacity <= capacity, every shard the splitter has
\* written holds exactly its own cells: shard n holds the bytes that follow
\* those of shards 1..n-1 after the preamble, shard_capacity cells of them, the
\* last shard the remainder; the ranges are pairwise disjoint; and when the
\* splitter returns Ok, shards 1..shard_count are all written, and their
\* cells are the capacity cells of the legacy file.
C2_ShardsPartitionCells ==
    (config.exists /\ hash_capacity <= legacy.capacity) =>
        LET cap == legacy.capacity
            cnt == ClaimedCount(cap, hash_capacity)
            first(n) == LEGACY_HEADER + (n - 1) * hash_capacity * B_SIZE
            done(n) == shards[n].data # <<>>
        IN  /\ \A n \in 1..MaxShards :
                 done(n) =>
                    /\ n <= cnt
                    /\ shards[n].data =
                          Bytes(first(n), ClaimedCells(cap, hash_capacity, n) * B_SIZE)
            /\ \A m, n \in 1..MaxShards :
                 m # n => Range(shards[m].data) \cap Range(shards[n].data) = {}
            /\ pc = "s_done" =>
                 /\ \A n \in 1..cnt : done(n)
                 /\ UNION { Range(shards[n].data) : n \in 1..cnt }
                      = LEGACY_HEADER .. (LEGACY_HEADER + cap * B_SIZE - 1)

\* the analogue of capacity=100, shard_capacity=40: three shards, the last short
C2_Witness ==
    /\ pc = "s_done"
    /\ legacy.capacity = 5
    /\ hash_capacity = 2
    /\ Len(shards[1].data) = 2 * B_SIZE
    /\ Len(shards[2].data) = 2 * B_SIZE
    /\ Len(shards[3].data) = 1 * B_SIZE

\* C3: a splitter run that finds the config file present writes no file,
\* leaves the config and every shard as they were, and goes no further than
\* its panic.
C3_ExistingConfigRefused ==
    (tool = "splitter" /\ start.config.exists) =>
        /\ writes = 0
        /\ config = start.config
        /\ shards = start.shards
        /\ pc \in {"s_config", "s_panic", "crashed", "idle"}

C3_Witness ==
    /\ tool = "splitter"
    /\ start.config.exists
    /\ pc = "s_panic"

\* C4: the shard count stored in the config is ceil(capacity / shard_capacity)
\* of the legacy capacity and the requested shard capacity.
C4_ShardCountIsCeiling ==
    (config.exists /\ hash_capacity <= legacy.capacity) =>
        /\ config.capacity = legacy.capacity
        /\ config.hash_capacity = hash_capacity
        /\ config.partition * config.hash_capacity >= config.capacity
        /\ (config.partition - 1) * config.hash_capacity < config.capacity

C4_Witness ==
    /\ config.exists
    /\ config.hash_capacity < config.capacity
    /\ config.capacity % config.hash_capacity # 0
    /\ config.partition = 3

\* C5: a builder run writes the config at most once, and only when every
\* chunk found has been folded; the size it writes is the sum of the counts
\* returned; a run in which a fold failed writes no config; a run that
\* returns Ok has written it.
C5_ConfigWrittenOnceAfterFolds ==
    tool = "builder" =>
        /\ cfg_writes <= 1
        /\ cfg_writes = 1 =>
              /\ Len(counts) = Len(chunk_files)
              /\ config.size = SumSeq(counts)
        /\ fold_failed => (cfg_writes = 0 /\ config = start.config)
        /\ pc = "b_done" => cfg_writes = 1

C5_Witness ==
    /\ pc = "b_done"
    /\ Len(counts) = 2
    /\ config.size = 2

\* ===================================== resolve.rs: read_rows_from_file
\* resolve.rs:105  size_of::<Row>(): Row is three u32 fields (value, seq_id,
\* kmer_id); each field is narrowed to one byte here
ROW_SIZE == 3

ByteValues == {1, 2}

\* resolve.rs:109  transmute(buffer): the bytes read as the fields of a Row
DecodeRow(b) == [value |-> b[1], seq_id |-> b[2], kmer_id |-> b[3]]

\* resolve.rs:108  read_exact(&mut buffer).is_ok(): a whole record is left
RecordAvailableBeyond(remaining) == remaining > ROW_SIZE

RecordAvailable(remaining) == remaining >= ROW_SIZE

\* resolve.rs:110  map.entry(row.seq_id).or_default().push(row)
PushRow(map, row) ==
    [k \in DOMAIN map \cup {row.seq_id} |->
        IF k = row.seq_id
        THEN (IF k \in DOMAIN map THEN map[k] ELSE <<>>) \o <<row>>
        ELSE map[k]]

\* resolve.rs:102-114  the whole loop, as a function of the file's bytes
RECURSIVE ReadLoop(_, _)
ReadLoop(bytes, map) ==
    IF RecordAvailable(Len(bytes))
    THEN ReadLoop(SubSeq(bytes, ROW_SIZE + 1, Len(bytes)),
                  PushRow(map, DecodeRow(SubSeq(bytes, 1, ROW_SIZE))))
    ELSE map

ReadRowsFromFile(bytes) == ReadLoop(bytes, <<>>)

\* the number of rows a map holds
RECURSIVE RowsOf(_, _)
RowsOf(map, ids) ==
    IF ids = {} THEN 0
    ELSE LET id == CHOOSE x \in ids : TRUE
         IN  Len(map[id]) + RowsOf(map, ids \ {id})

TotalRows(map) == RowsOf(map, DOMAIN map)

InitRead ==
    /\ stream \in UNION { [1..n -> ByteValues] : n \in 0..MaxBytes }
    /\ rpos = 0
    /\ rmap = <<>>
    /\ rpc = "reading"
    /\ BuildOff
    /\ ArgsOff
    /\ CallOff
    /\ RunOff
    /\ SquidOff

\* resolve.rs:108-111  one turn of the while loop
ReadRow ==
    /\ UNCHANGED notReadVars
    /\ rpc = "reading"
    /\ RecordAvailable(Len(stream) - rpos)
    /\ rmap' = PushRow(rmap, DecodeRow(SubSeq(stream, rpos + 1, rpos + ROW_SIZE)))
    /\ rpos' = rpos + ROW_SIZE
    /\ UNCHANGED <<stream, rpc>>

\* resolve.rs:108, 113  read_exact fails (end of file): Ok(map)
ReadEnd ==
    /\ UNCHANGED notReadVars
    /\ rpc = "reading"
    /\ ~RecordAvailable(Len(stream) - rpos)
    /\ rpc' = "ok"
    /\ UNCHANGED <<stream, rpos, rmap>>

NextRead ==
    \/ ReadRow
    \/ ReadEnd

SpecRead == InitRead /\ [][NextRead]_vars

\* C9: when read_rows_from_file returns, it returns Ok with floor(n / w)
\* rows: under each sequence id the complete records of that id, in stream
\* order, and nothing for the n mod w bytes that follow them.
C9_WholeRecordsOnly ==
    rpc = "ok" =>
        LET n == Len(stream)
            cnt == n \div ROW_SIZE
            rec == [k \in 1..cnt |->
                      [value |-> stream[(k - 1) * ROW_SIZE + 1],
                       seq_id |-> stream[(k - 1) * ROW_SIZE + 2],
                       kmer_id |-> stream[(k - 1) * ROW_SIZE + 3]]]
            Of(id) == LET Is(r) == r.seq_id = id IN SelectSeq(rec, Is)
        IN  /\ TotalRows(rmap) = cnt
            /\ DOMAIN rmap = { rec[k].seq_id : k \in 1..cnt }
            /\ \A id \in DOMAIN rmap : rmap[id] = Of(id)
            /\ rpos = cnt * ROW_SIZE
            /\ rmap = ReadRowsFromFile(stream)

\* two records of one sequence, one of another... and a cut record at the end
C9_Witness ==
    /\ rpc = "ok"
    /\ Len(stream) = 2 * ROW_SIZE + 1
    /\ DOMAIN rmap = {1}
    /\ Len(rmap[1]) = 2

\* ============================ resolve.rs: the closure of process_batch
\* ---- taxonomy::Taxonomy: a tree of three nodes, 1 the root of 2 and 3;
\* ---- 0 is the empty taxon
Taxa == {1, 2, 3}

Parent(t) == IF t = 1 THEN 0 ELSE 1

Depth(t) == IF t = 1 THEN 0 ELSE 1

\* a taxon and its ancestors, up to the root
Ancestors(t) == IF t = 0 THEN {} ELSE IF t = 1 THEN {1} ELSE {t, 1}

\* the taxon ids a hit record may carry
HitValues == {0, 2, 3}

\* resolve.rs:138-139  rows.sort_unstable(): Row is ordered by kmer_id, the
\* position of the minimizer in the read
RECURSIVE SortedRows(_)
RowsAsArrived(rows) == rows

SortedRows(rows) ==
    IF rows = <<>> THEN <<>>
    ELSE LET k == CHOOSE k \in 1..Len(rows) :
                     \A j \in 1..Len(rows) : rows[k].kmer_id <= rows[j].kmer_id
         IN  <<rows[k]>> \o
             SortedRows([j \in 1..(Len(rows) - 1) |->
                            IF j < k THEN rows[j] ELSE rows[j + 1]])

\* The hit groups of sorted rows: the taxa of the maximal runs of consecutive
\* rows with the same non-empty taxon
RECURSIVE HitGroups(_, _)
HitGroups(rows, prev) ==
    IF rows = <<>> THEN <<>>
    ELSE LET v == Head(rows).value
         IN  (IF v # 0 /\ v # prev THEN <<v>> ELSE <<>>)
             \o HitGroups(Tail(rows), v)

\* HitGroup::required_score: ceil(confidence_threshold * minimizers)
RequiredScore(conf, total) == (conf * total + 1) \div 2

\* classify::process_hitgroup: one vote of each hit group for its taxon and
\* every ancestor; the call is the node of the highest vote that reaches
\* required_score, the deepest of them on a tie; no call when no node
\* qualifies or the hit groups are fewer than minimum_hit_groups
ProcessHitgroup(rows, required_score, min_groups) ==
    LET groups == HitGroups(rows, 0)
        Votes(t) == Cardinality({ g \in 1..Len(groups) : t \in Ancestors(groups[g]) })
        ok == { t \in Taxa : Votes(t) > 0 /\ Votes(t) >= required_score }
        top == { t \in ok : \A u \in ok : Votes(u) <= Votes(t) }
        deep == { t \in top : \A u \in top : Depth(u) <= Depth(t) }
        call == IF ok = {} \/ Len(groups) < min_groups
                THEN 0
                ELSE CHOOSE t \in deep : \A u \in deep : t <= u
    IN  [status |-> IF call = 0 THEN "U" ELSE "C",
         call |-> call,
         classified |-> IF call = 0 THEN 0 ELSE 1]

\* resolve.rs:138-153  what the closure computes of the rows of one sequence
Classify(rows, conf, min_groups) ==
    LET sorted == SortedRows(rows)
    IN  ProcessHitgroup(sorted, RequiredScore(conf, Len(sorted)), min_groups)

\* the hit records of one sequence: no two at the same position
RowsOfSeq(id, n) ==
    { s \in [1..n -> [value : HitValues, seq_id : {id}, kmer_id : 1..MaxHits]] :
        \A j, k \in 1..n : j # k => s[j].kmer_id # s[k].kmer_id }

InitCall ==
    /\ rows_in \in UNION { RowsOfSeq(1, n) : n \in 0..MaxHits }
    /\ confidence \in {0, 1, 2}
    /\ minimum_hit_groups \in 1..3
    /\ hits = <<>>
    /\ hit_data = NoHitData
    /\ cpc = "start"
    /\ BuildOff
    /\ ReadOff
    /\ RunOff
    /\ SquidOff

\* resolve.rs:138-144
CallSort ==
    /\ UNCHANGED notCallVars
    /\ cpc = "start"
    /\ hits' = SortedRows(rows_in)
    /\ cpc' = "sorted"
    /\ UNCHANGED <<rows_in, hit_data>>

\* resolve.rs:146-153
CallResolve ==
    /\ UNCHANGED notCallVars
    /\ cpc = "sorted"
    /\ hit_data' = ProcessHitgroup(hits, RequiredScore(confidence, Len(hits)),
                                   minimum_hit_groups)
    /\ cpc' = "done"
    /\ UNCHANGED <<rows_in, hits>>

NextCall ==
    \/ CallSort
    \/ CallResolve

SpecCall == InitCall /\ [][NextCall]_vars

\* every order in which the same rows may arrive
Arrivals(rows) ==
    { q \in [1..Len(rows) -> Range(rows)] : Range(q) = Range(rows) }

\* C7: the call made of the rows of a sequence (status and taxon) is the call
\* made of the same rows in any other order of arrival, under the same
\* confidence threshold and minimum_hit_groups.
C7_CallIgnoresArrivalOrder ==
    cpc = "done" =>
        \A q \in Arrivals(rows_in) :
            LET other == ProcessHitgroup(SortedRows(q),
                                         RequiredScore(confidence, Len(q)),
                                         minimum_hit_groups)
            IN  /\ other.status = hit_data.status
                /\ other.call = hit_data.call

\* rows that arrived out of order and were called
C7_Witness ==
    /\ cpc = "done"
    /\ Len(rows_in) = 3
    /\ rows_in[1].kmer_id > rows_in[2].kmer_id
    /\ rows_in[1].value # rows_in[2].value
    /\ minimum_hit_groups = 3
    /\ hit_data.status = "C"

\* ===================================== resolve.rs: run and process_batch
\* resolve.rs:262,267  usize, narrowed to 16 bits
USIZE_MOD == 65536

SeqIds == {1, 2}

\* the batches of the run, and the hit-record files of each:
\* sample_file_<batch>_<n>.bin
Batches == {1, 2}

Files == {1, 2}

ZeroCounts == [t \in Taxa |-> 0]

IdleWorker == [busy |-> FALSE, key |-> 0, data |-> NoHitData]

\* the bytes of a hit-record file holding rows
RECURSIVE EncodeRows(_)
EncodeRows(rows) ==
    IF rows = <<>> THEN <<>>
    ELSE <<Head(rows).value, Head(rows).seq_id, Head(rows).kmer_id>>
         \o EncodeRows(Tail(rows))

\* resolve.rs:137  id_map.get(&k)
LookupAlways(id_map, k) == TRUE

Lookup(id_map, k) == k \in id_map

\* readcounts::ReadCounts::merge: read counts add
MergeCounts(mine, other) == mine + other

\* resolve.rs:156-160, 242-246  counters.entry(key).or_default().merge(value):
\* one step, under the lock of the entry
MergeEntryInsert(counters, key, value) == [counters EXCEPT ![key] = value]

MergeEntry(counters, key, value) ==
    [counters EXCEPT ![key] = MergeCounts(@, value)]

\* resolve.rs:241-252  the entries of the batch merged into the run's counters
RECURSIVE RollUp(_, _, _)
RollUp(total, cur, keys) ==
    IF keys = {} THEN total
    ELSE LET t == CHOOSE x \in keys : TRUE
         IN  RollUp(MergeEntry(total, t, cur[t]), cur, keys \ {t})

\* the rows placed in the files of the run: row j of a placement lies in file
\* slot[2] of batch slot[1], at position j
SlotLE(s, t) == s[1] < t[1] \/ (s[1] = t[1] /\ s[2] <= t[2])

Placements ==
    UNION { { p \in [1..k -> [seq_id : SeqIds, value : HitValues,
                               slot : Batches \X Files]] :
                \A j \in 1..(k - 1) : SlotLE(p[j].slot, p[j + 1].slot) } :
            k \in 0..MaxRows }

RECURSIVE RowsIn(_, _, _)
RowsIn(p, slot, j) ==
    IF j > Len(p) THEN <<>>
    ELSE (IF p[j].slot = slot
          THEN <<[value |-> p[j].value, seq_id |-> p[j].seq_id, kmer_id |-> j]>>
          ELSE <<>>) \o RowsIn(p, slot, j + 1)

InitRun ==
    /\ \E p \in Placements :
          sample_files =
             [n \in Batches |->
                [m \in Files |-> EncodeRows(RowsIn(p, <<n, m>>, 1))]]
    /\ sample_id_maps \in [Batches -> {{1}, {1, 2}}]
    /\ confidence = 0
    /\ minimum_hit_groups = 1
    /\ qpc = "r_batch"
    /\ batch = 1
    /\ file = 0
    /\ hit_counts = <<>>
    /\ todo = {}
    /\ workers = [w \in 1..NumThreads |-> IdleWorker]
    /\ results = <<>>
    /\ out = <<>>
    /\ classify_counter = 0
    /\ cur_taxon_counts = ZeroCounts
    /\ total_taxon_counts = ZeroCounts
    /\ total_seqs = 0
    /\ total_unclassified = 0
    /\ emitted = ZeroCounts
    /\ emitted_total = ZeroCounts
    /\ raced = FALSE
    /\ BuildIdle(BuiltConfig)
    /\ ReadOff
    /\ CallOff
    /\ SquidOff

\* resolve.rs:214-225, 124-128  the next batch: its id map, its writer, the
\* counters of process_batch
BatchStart ==
    /\ UNCHANGED notRunVars
    /\ qpc = "r_batch"
    /\ batch \in Batches
    /\ out' = <<>>
    /\ classify_counter' = 0
    /\ cur_taxon_counts' = ZeroCounts
    /\ emitted' = ZeroCounts
    /\ file' = 1
    /\ qpc' = "r_file"
    /\ UNCHANGED <<sample_files, sample_id_maps, batch, hit_counts, todo,
                   workers, results, total_taxon_counts, total_seqs,
                   total_unclassified, emitted_total, raced>>

\* resolve.rs:130-131
FileRead ==
    /\ UNCHANGED notRunVars
    /\ qpc = "r_file"
    /\ file <= Len(sample_files[batch])
    /\ hit_counts' = ReadRowsFromFile(sample_files[batch][file])
    /\ todo' = DOMAIN hit_counts'
    /\ qpc' = "r_map"
    /\ UNCHANGED <<sample_files, sample_id_maps, batch, file, workers, results,
                   out, classify_counter, cur_taxon_counts, total_taxon_counts,
                   total_seqs, total_unclassified, emitted, emitted_total,
                   raced>>

\* resolve.rs:136-153, 169-172  a worker takes a sequence: on a miss the
\* closure returns None; else it classifies the rows (process_hitgroup adds
\* to classify_counter when it makes a call)
WorkerTake(w) ==
    /\ UNCHANGED notRunVars
    /\ qpc = "r_map"
    /\ ~workers[w].busy
    /\ \E k \in todo :
          /\ todo' = todo \ {k}
          /\ IF Lookup(sample_id_maps[batch], k)
             THEN LET data == Classify(hit_counts[k], confidence,
                                       minimum_hit_groups)
                  IN  /\ workers' = [workers EXCEPT
                                       ![w] = [busy |-> TRUE, key |-> k,
                                               data |-> data]]
                      /\ classify_counter' = classify_counter + data.classified
                      /\ emitted' = IF data.call = 0 THEN emitted
                                    ELSE [emitted EXCEPT ![data.call] = @ + 1]
                      /\ raced' = (raced \/
                                     (data.call # 0 /\
                                      \E v \in DOMAIN workers :
                                         /\ v # w
                                         /\ workers[v].busy
                                         /\ workers[v].data.call = data.call))
                      /\ UNCHANGED results
             ELSE /\ results' = Append(results,
                                       [some |-> FALSE, id |-> k,
                                        status |-> "U", call |-> 0])
                  /\ UNCHANGED <<workers, classify_counter, emitted, raced>>
    /\ UNCHANGED <<sample_files, sample_id_maps, qpc, batch, file, hit_counts,
                   out, cur_taxon_counts, total_taxon_counts, total_seqs,
                   total_unclassified, emitted_total>>

\* resolve.rs:155-168  the closure merges its delta and returns the line
WorkerMerge(w) ==
    /\ UNCHANGED notRunVars
    /\ qpc = "r_map"
    /\ workers[w].busy
    /\ LET data == workers[w].data
       IN  /\ cur_taxon_counts' =
                 IF data.call = 0 THEN cur_taxon_counts
                 ELSE MergeEntry(cur_taxon_counts, data.call, 1)
           /\ results' = Append(results,
                                [some |-> TRUE, id |-> workers[w].key,
                                 status |-> data.status, call |-> data.call])
    /\ workers' = [workers EXCEPT ![w] = IdleWorker]
    /\ UNCHANGED <<sample_files, sample_id_maps, qpc, batch, file, hit_counts,
                   todo, out, classify_counter, total_taxon_counts, total_seqs,
                   total_unclassified, emitted, emitted_total, raced>>

\* resolve.rs:174-181  the consumer writes the line of a Some, drops a None
WriteResult ==
    /\ UNCHANGED notRunVars
    /\ qpc = "r_map"
    /\ results # <<>>
    /\ out' = IF Head(results).some
              THEN Append(out, [id |-> Head(results).id,
                                status |-> Head(results).status,
                                call |-> Head(results).call])
              ELSE out
    /\ results' = Tail(results)
    /\ UNCHANGED <<sample_files, sample_id_maps, qpc, batch, file, hit_counts,
                   todo, workers, classify_counter, cur_taxon_counts,
                   total_taxon_counts, total_seqs, total_unclassified, emitted,
                   emitted_total, raced>>

\* resolve.rs:183-185  buffer_map_parallel returns: the next file
MapDone ==
    /\ UNCHANGED notRunVars
    /\ qpc = "r_map"
    /\ todo = {}
    /\ results = <<>>
    /\ \A w \in DOMAIN workers : ~workers[w].busy
    /\ file' = file + 1
    /\ qpc' = "r_file"
    /\ UNCHANGED <<sample_files, sample_id_maps, batch, hit_counts, todo,
                   workers, results, out, classify_counter, cur_taxon_counts,
                   total_taxon_counts, total_seqs, total_unclassified, emitted,
                   emitted_total, raced>>

\* process_batch has read every file of the batch and returns
BatchProcessed ==
    /\ qpc = "r_file"
    /\ file > Len(sample_files[batch])

\* resolve.rs:187, 235-268  the roll-up into the run's counters and totals.
\* thread_sequences - thread_classified is a usize subtraction: below zero it
\* panics (overflow checks on) or wraps (overflow checks off)
BatchEnd ==
    /\ UNCHANGED notRunVars
    /\ BatchProcessed
    /\ LET thread_sequences == Cardinality(sample_id_maps[batch])
           thread_classified == classify_counter
       IN  /\ total_taxon_counts' =
                 RollUp(total_taxon_counts, cur_taxon_counts,
                        { t \in Taxa : cur_taxon_counts[t] # 0 })
           /\ emitted_total' = [t \in Taxa |-> emitted_total[t] + emitted[t]]
           /\ \E checks \in BOOLEAN :
                 IF thread_classified > thread_sequences /\ checks
                 THEN /\ qpc' = "r_panic"
                      /\ UNCHANGED <<total_seqs, total_unclassified, batch>>
                 ELSE /\ total_seqs' = total_seqs + thread_sequences
                      /\ total_unclassified' =
                            (total_unclassified +
                             ((thread_sequences - thread_classified) % USIZE_MOD))
                            % USIZE_MOD
                      /\ batch' = batch + 1
                      /\ qpc' = "r_batch"
    /\ UNCHANGED <<sample_files, sample_id_maps, file, hit_counts, todo,
                   workers, results, out, classify_counter, cur_taxon_counts,
                   emitted, raced>>

\* resolve.rs:270-310
RunEnd ==
    /\ UNCHANGED notRunVars
    /\ qpc = "r_batch"
    /\ batch \notin Batches
    /\ qpc' = "r_done"
    /\ UNCHANGED <<sample_files, sample_id_maps, batch, file, hit_counts, todo,
                   workers, results, out, classify_counter, cur_taxon_counts,
                   total_taxon_counts, total_seqs, total_unclassified, emitted,
                   emitted_total, raced>>

NextRun ==
    \/ BatchStart
    \/ FileRead
    \/ \E w \in 1..NumThreads : WorkerTake(w)
    \/ \E w \in 1..NumThreads : WorkerMerge(w)
    \/ WriteResult
    \/ MapDone
    \/ BatchEnd
    \/ RunEnd

SpecRun == InitRun /\ [][NextRun]_vars

\* ------------------------------------------------- the inputs of a batch
\* the rows file m of batch n holds, by sequence id
RowsOfFile(n, m) == ReadRowsFromFile(sample_files[n][m])

\* the sequence ids the hit records of batch n name
NamedIn(n) == UNION { DOMAIN RowsOfFile(n, m) : m \in Files }

\* the lines written for sequence id in the current batch, in order
LinesOf(id) == LET Is(line) == line.id = id IN SelectSeq(out, Is)

\* the lines due to sequence id of batch n from files m.. on: one for each
\* file that holds rows of it
RECURSIVE LinesDue(_, _, _)
LinesDue(n, id, m) ==
    IF m \notin Files THEN <<>>
    ELSE (IF id \in DOMAIN RowsOfFile(n, m)
          THEN LET data == Classify(RowsOfFile(n, m)[id], confidence,
                                    minimum_hit_groups)
               IN  <<[id |-> id, status |-> data.status, call |-> data.call]>>
          ELSE <<>>) \o LinesDue(n, id, m + 1)

\* the closures at work that hold a delta for taxon t
Pending(t) ==
    Cardinality({ w \in DOMAIN workers :
                    workers[w].busy /\ workers[w].data.call = t })

\* the calls of taxon t the inputs of the whole run hold
CallsOf(t) ==
    Cardinality({ x \in Batches \X Files \X SeqIds :
                    /\ x[3] \in sample_id_maps[x[1]]
                    /\ x[3] \in DOMAIN RowsOfFile(x[1], x[2])
                    /\ Classify(RowsOfFile(x[1], x[2])[x[3]], confidence,
                                minimum_hit_groups).call = t })

\* C6: no delta is lost: at every moment the batch counter of a taxon plus
\* the deltas closures still hold is the sum of the deltas emitted in the
\* batch, whatever the interleaving; the run's counter of a taxon is the sum
\* of the deltas emitted in the batches rolled up; and at the end of the run
\* it is the number of calls of that taxon in the inputs.
C6_NoLostUpdates ==
    qpc # "off" =>
        /\ \A t \in Taxa : cur_taxon_counts[t] + Pending(t) = emitted[t]
        /\ total_taxon_counts = emitted_total
        /\ qpc = "r_done" =>
              \A t \in Taxa : total_taxon_counts[t] = CallsOf(t)

\* two closures held a delta for taxon 2 at once, and both were counted
C6_Witness ==
    /\ qpc = "r_done"
    /\ raced
    /\ total_taxon_counts[2] = 2

\* C8: when process_batch has gone through the files of a batch, every
\* sequence of the batch's sequence-id map has exactly one line.
C8_OneLinePerSequence ==
    BatchProcessed =>
        \A id \in sample_id_maps[batch] : Len(LinesOf(id)) = 1

\* C10: a sequence id the hit records name and the map lacks gets no line,
\* no delta and no count; the sequences of the map that the hit records name
\* get their lines as without it; and run does not stop over it (its only
\* panic is the subtraction of a classified count above the map's size).
C10_MissSkipsOnlyThatSequence ==
    /\ qpc \in {"r_file", "r_map"} =>
          \A j \in 1..Len(out) : out[j].id \in sample_id_maps[batch]
    /\ BatchProcessed =>
          LET Called(line) == line.status = "C"
          IN  /\ classify_counter = Len(SelectSeq(out, Called))
              /\ \A t \in Taxa :
                    LET CalledT(line) == line.status = "C" /\ line.call = t
                    IN  cur_taxon_counts[t] = Len(SelectSeq(out, CalledT))
              /\ \A id \in SeqIds :
                    LinesOf(id) = IF id \in sample_id_maps[batch]
                                  THEN LinesDue(batch, id, 1)
                                  ELSE <<>>
    /\ qpc = "r_panic" =>
          classify_counter > Cardinality(sample_id_maps[batch])

\* the hit records name sequence 2, which the map lacks, and sequence 1 was
\* called and written
C10_Witness ==
    /\ BatchProcessed
    /\ sample_id_maps[batch] = {1}
    /\ 2 \in NamedIn(batch)
    /\ Len(out) = 1
    /\ out[1].id = 1
    /\ out[1].status = "C"
    /\ classify_counter = 1

\* ============================================ the builder's chunk files
\* C11: when the numbers of the chunk files found are not 1, 2, ..., n the
\* builder's next step is its error return (or its death), with the config,
\* the shards and the chunk files as they were; and when the builder returns
\* Ok, the chunks it has folded are one for each shard the config counts.
C11_ContiguousOrAbort ==
    /\ [][(pc = "b_find" /\ chunks # 1..Cardinality(chunks)) =>
             /\ pc' \in {"b_err", "crashed"}
             /\ UNCHANGED <<config, shards, chunks, counts>>]_vars
    /\ [](pc = "b_done" => Len(counts) = hash_config.partition)

\* C12: once the builder has folded every chunk and written the config, a
\* removal that fails does not end the run: from the removal loop the run
\* goes on removing or returns Ok, unless the process is killed.
C12_DeleteFailureNonFatal ==
    [][(pc = "b_remove" /\ pc' # "crashed") =>
          pc' \in {"b_remove", "b_done"}]_vars

\* ================================ squid.rs: process_chunk_file (hit lookup)
\* squid.rs:75  the header of a chunk file: page index and page size, u64 each
CHUNK_HEADER == 16
\* squid.rs:71  size_of::<Slot<u64>>(), narrowed to two bytes
SLOT_SIZE == 2
\* squid.rs:44  BATCH_SIZE, the slots the batch buffer holds, narrowed
BATCH_SIZE == 2

\* squid.rs:72-73  the length of batch_buffer
BatchBufferSize == SLOT_SIZE * BATCH_SIZE

\* squid.rs:98
SlotsInBatch(bytes_read) == bytes_read \div SLOT_SIZE

\* squid.rs:100-102  the slice of n slots over the head of batch_buffer, which
\* holds the bytes of the file from offset pos on; a slot is told by the file
\* offsets of its bytes
Slots(pos, n) ==
    [k \in 1..n |-> [j \in 1..SLOT_SIZE |-> pos + (k - 1) * SLOT_SIZE + j - 1]]

\* Read::read(&mut batch_buffer) with pos of len bytes consumed: an error,
\* Ok(0) at the end of the file, else Ok(n) for any n from 1 to what the
\* buffer and the file allow
ReadResults(pos, len) ==
    { [ok |-> FALSE, bytes_read |-> 0] }
    \cup (IF pos >= len
          THEN { [ok |-> TRUE, bytes_read |-> 0] }
          ELSE { [ok |-> TRUE, bytes_read |-> n] :
                    n \in 1..(IF len - pos < BatchBufferSize
                              THEN len - pos ELSE BatchBufferSize) })

InitSquid ==
    /\ query_file \in { [len |-> n] :
                          n \in {CHUNK_HEADER - 1}
                                \cup (CHUNK_HEADER..(CHUNK_HEADER + MaxQueryBytes)) }
    /\ reader = 0
    /\ slot_batches = <<>>
    /\ spc = "q_open"
    /\ BuildOff
    /\ ReadOff
    /\ ArgsOff
    /\ CallOff
    /\ RunOff

\* squid.rs:68-90  read_exact the header, open the page of the index
\* (CHTable::from, which may fail)
SquidOpen ==
    /\ UNCHANGED notSquidVars
    /\ spc = "q_open"
    /\ IF query_file.len < CHUNK_HEADER
       THEN /\ spc' = "q_err"
            /\ UNCHANGED reader
       ELSE /\ reader' = CHUNK_HEADER
            /\ \E opened \in BOOLEAN :
                  spc' = IF opened THEN "q_loop" ELSE "q_err"
    /\ UNCHANGED <<query_file, slot_batches>>

\* squid.rs:92-110  one turn of the while let Ok(bytes_read) loop: the loop
\* ends on an error of read and on Ok(0), and the function returns Ok(())
SquidRead ==
    /\ UNCHANGED notSquidVars
    /\ spc = "q_loop"
    /\ \E r \in ReadResults(reader, query_file.len) :
          IF ~r.ok
          THEN /\ spc' = "q_cut"
               /\ UNCHANGED <<reader, slot_batches>>
          ELSE IF r.bytes_read = 0
          THEN /\ spc' = "q_done"
               /\ UNCHANGED <<reader, slot_batches>>
          ELSE /\ slot_batches' =
                     Append(slot_batches,
                            Slots(reader, SlotsInBatch(r.bytes_read)))
               /\ reader' = reader + r.bytes_read
               /\ UNCHANGED spc
    /\ UNCHANGED query_file

NextSquid ==
    \/ SquidOpen
    \/ SquidRead

SpecSquid == InitSquid /\ [][NextSquid]_vars

\* the slots resolved so far, in the order of the batches
RECURSIVE Flatten(_)
Flatten(bs) == IF bs = <<>> THEN <<>> ELSE Head(bs) \o Flatten(Tail(bs))

\* the k-th query record of the stream
QueryRecord(k) ==
    [j \in 1..SLOT_SIZE |-> CHUNK_HEADER + (k - 1) * SLOT_SIZE + j - 1]

\* the complete query records the file holds
QueryCount == (query_file.len - CHUNK_HEADER) \div SLOT_SIZE

\* C13: every batch holds at most BATCH_SIZE slots; the slots resolved lie
\* after the 16-byte header and follow the order of the stream; and when
\* read has reported the end of the file, every complete query record of the
\* stream has been resolved exactly once, whatever byte counts the reads
\* returned.
C13_EveryRecordOnce ==
    LET all == Flatten(slot_batches)
    IN  /\ \A n \in 1..Len(slot_batches) : Len(slot_batches[n]) <= BATCH_SIZE
        /\ \A n \in 1..Len(all) : all[n][1] >= CHUNK_HEADER
        /\ \A m, n \in 1..Len(all) : m < n => all[m][1] < all[n][1]
        /\ spc = "q_done" =>
              \A k \in 1..QueryCount :
                 Cardinality({ n \in 1..Len(all) : all[n] = QueryRecord(k) }) = 1

\* ============================================ the layout of the legacy index
\* the last byte of the legacy file the splitter has copied into a shard
LastCopied(n) == shards[n].data[Len(shards[n].data)]

\* C14: the splitter takes the legacy index as a preamble of 32 bytes and
\* then capacity cells of 4 bytes: the first cell copied into shard 1 is the
\* byte at offset 32 of the legacy file; the last byte copied by a run that
\* returns Ok is byte 32 + 4 * capacity - 1, which the file must hold; and a
\* legacy file shorter than 32 + 4 * capacity bytes makes the run fail.
C14_LegacyPreamble32 ==
    (tool = "splitter" /\ pc \in {"s_loop", "s_copy", "s_done", "s_err"}) =>
        /\ shards[1].data # <<>> => shards[1].data[1] = 32
        /\ pc = "s_done" =>
              /\ legacy.len >= 32 + 4 * legacy.capacity
              /\ LastCopied(hash_config.partition) = 32 + 4 * legacy.capacity - 1
        /\ pc = "s_err" => legacy.len < 32 + 4 * legacy.capacity

\* a split of capacity 2 into two shards has returned Ok
C14_Witness ==
    /\ tool = "splitter"
    /\ pc = "s_done"
    /\ legacy.capacity = 2
    /\ hash_config.partition = 2
    /\ shards[1].data = <<32, 33, 34, 35>>
    /\ shards[2].data = <<36, 37, 38, 39>>

\* C14 as stated: the cells start at offset 16 and the file is taken to be
\* 16 + 4 * capacity bytes long.
C14_LegacyPreamble16 ==
    (tool = "splitter" /\ pc \in {"s_loop", "s_copy", "s_done", "s_err"}) =>
        /\ shards[1].data # <<>> => shards[1].data[1] = 16
        /\ pc = "s_done" =>
              /\ legacy.len >= 16 + 4 * legacy.capacity
              /\ LastCopied(hash_config.partition) = 16 + 4 * legacy.capacity - 1
        /\ pc = "s_err" => legacy.len < 16 + 4 * legacy.capacity

\* ============================================ the tools around the config
\* the splitter and builder runs of a directory, and the resolver's run
InitTools ==
    \/ InitBuild
    \/ InitRun

NextTools ==
    \/ NextBuild
    \/ NextRun

SpecTools == InitTools /\ [][NextTools]_vars

\* C15: a step of a builder run leaves the config file as it is or writes it
\* with capacity, shard capacity, shard count and value mask as they were,
\* the populated count alone being new; the config it leaves is the one its
\* run found but for the populated count; and no step of the resolver writes
\* the config file.
C15_OnlyPopulatedCountChanges ==
    [][/\ tool = "builder" =>
            /\ config'.exists = config.exists
            /\ config'.capacity = config.capacity
            /\ config'.hash_capacity = config.hash_capacity
            /\ config'.partition = config.partition
            /\ config'.value_mask = config.value_mask
            /\ config' = [start.config EXCEPT !.size = config'.size]
       /\ qpc # "off" => config' = config]_vars

\* a builder run over a config of two shards has written a populated count
\* of 2 where 0 stood
C15_Witness ==
    /\ tool = "builder"
    /\ pc = "b_done"
    /\ start.config.size = 0
    /\ config.size = 2
    /\ config.partition = 2
    /\ config.capacity = start.config.capacity

\* ============================================ the header of a shard file
\* the cells of the legacy index that fall to shard n of the running split
CellsOfShard(n) ==
    IF n < hash_config.partition
    THEN hash_capacity
    ELSE legacy.capacity - (hash_config.partition - 1) * hash_capacity

\* C16: every shard file the splitter has written (mmap_read_write returned
\* Ok for it) starts with 16 bytes: the shard index in 8 bytes, the lowest
\* first, then in 8 bytes, the lowest first, the number of cells the file
\* holds after them, which is hash_capacity for every shard but the last and
\* the remainder for the last; and a run that returns Ok has written the
\* shards 1..partition.
C16_ShardHeaderMatchesCells ==
    (tool = "splitter" /\ pc \in {"s_loop", "s_copy", "s_done", "s_err"}) =>
        /\ \A n \in 1..MaxShards :
              n < i =>
                 LET h == ShardHeader(shards[n])
                 IN  /\ n <= hash_config.partition
                     /\ Len(h) = 16
                     /\ h[1] = n
                     /\ \A k \in 2..8 : h[k] = 0
                     /\ h[9] * B_SIZE = Len(shards[n].data)
                     /\ h[9] = CellsOfShard(n)
                     /\ \A k \in 10..16 : h[k] = 0
        /\ pc = "s_done" => i = hash_config.partition + 1

\* capacity 5 split by 2: the headers say 2, 2 and 1 cells
C16_Witness ==
    /\ tool = "splitter"
    /\ pc = "s_done"
    /\ hash_config.partition = 3
    /\ ShardHeader(shards[1])[9] = 2
    /\ ShardHeader(shards[2])[9] = 2
    /\ ShardHeader(shards[3])[1] = 3
    /\ ShardHeader(shards[3])[9] = 1
    /\ Len(shards[3].data) = 4

\* ============================================ the totals of the resolver
\* the calls made in the batches rolled up so far
ClassifiedTotal == SumSeq(emitted_total)

\* C17: when process_batch returns, the classified count is at most the
\* number of sequences of the batch's sequence-id map; run never panics on
\* the subtraction sequences - classified; and between batches and at the end
\* total_seqs is the calls made plus total_unclassified.
C17_ClassifiedWithinBatch ==
    /\ BatchProcessed =>
          classify_counter <= Cardinality(sample_id_maps[batch])
    /\ qpc # "r_panic"
    /\ qpc \in {"r_batch", "r_done"} =>
          total_seqs = ClassifiedTotal + total_unclassified

====
